---- MODULE Spec2Model ----
(***************************************************************************)
(* A model of scripts/parse_results.py: the message parser, the result     *)
(* normalizer, the diagram extractor, the report exporters and main.       *)
(*                                                                         *)
(* A Python str is a sequence of one-character strings, so that split,     *)
(* replace, strip and the regular expressions are computed character by    *)
(* character.  A Python float is a decimal [num, scale] standing for       *)
(* num / 10^scale; the inputs are kept to short decimals, for which        *)
(* float(), repr() and the fixed-point formats are exact.                  *)
(***************************************************************************)
EXTENDS Integers, Sequences, FiniteSets, TLC

VARIABLES
    \* the position of the run, and the frequency table of the run
    pc, bigram_frequencies,
    \* message processing
    message, metric_name,
    worst_bigrams, enhanced_message, formatted_message, cleaned_message,
    \* result normalization and the CSV export
    data, sorted_data, metrics_data, records, csv_file,
    \* diagram extraction and the SVG files
    txt_file, layout_sections, next_section, generated_layouts, svg_files,
    \* the Markdown report
    md_file

msgVars == <<message, metric_name,
             worst_bigrams, enhanced_message, formatted_message, cleaned_message>>

rowVars == <<data, sorted_data, metrics_data, records, csv_file>>

diagVars == <<txt_file, layout_sections, next_section, generated_layouts, svg_files>>

vars == <<pc, bigram_frequencies, msgVars, rowVars, diagVars, md_file>>

-----------------------------------------------------------------------------
(* Bounds of the model *)

\* a message is a concatenation of at most MaxFrags fragments
MaxFrags == 3

\* the JSON array holds at most MaxResults results
MaxResults == 2

\* a result holds at most MaxMetricCosts metric costs, over all its groups
MaxMetricCosts == 3

\* the text log holds at most MaxSections sections
MaxSections == 3

-----------------------------------------------------------------------------
(* Python str primitives *)

Min(S) == CHOOSE x \in S : \A y \in S : x <= y

Letters ==
    {"a","b","c","d","e","f","g","h","i","j","k","l","m",
     "n","o","p","q","r","s","t","u","v","w","x","y","z",
     "A","B","C","D","E","F","G","H","I","J","K","L","M",
     "N","O","P","Q","R","<<",">>T","U","V","W","X","Y","Z"}

DigitChars == <<"0","1","2","3","4","5","6","7","8","9">>

Digits == {DigitChars[i] : i \in 1..10}

\* \w of the re module, over the characters the model uses
WordChars == Letters \cup Digits \cup {"_"}

\* the characters str.strip() removes
Whitespace == {" ", "\t", "\n", "\r"}

\* s[i:i+len(sub)] == sub, for a 1-based i
MatchAt(s, sub, i) ==
    /\ i >= 1
    /\ i + Len(sub) - 1 <= Len(s)
    /\ \A k \in 1..Len(sub) : s[i + k - 1] = sub[k]

\* str.find from a 1-based position: the first match at or after from, 0 for none
Find(s, sub, from) ==
    LET hits == {i \in from..(Len(s) - Len(sub) + 1) : MatchAt(s, sub, i)}
    IN  IF hits = {} THEN 0 ELSE Min(hits)

\* sub in s
Contains(s, sub) == Find(s, sub, 1) # 0

\* s.startswith(sub)
StartsWith(s, sub) == MatchAt(s, sub, 1)

\* s.split(sep, maxsplit); maxsplit = -1 splits at every occurrence
RECURSIVE Split(_, _, _)
Split(s, sep, maxsplit) ==
    LET i == Find(s, sep, 1)
    IN  IF i = 0 \/ maxsplit = 0
        THEN <<s>>
        ELSE <<SubSeq(s, 1, i - 1)>>
             \o Split(SubSeq(s, i + Len(sep), Len(s)), sep, maxsplit - 1)

\* sep.join(parts)
RECURSIVE Join(_, _)
Join(parts, sep) ==
    IF parts = <<>> THEN <<>>
    ELSE IF Len(parts) = 1 THEN parts[1]
    ELSE parts[1] \o sep \o Join(Tail(parts), sep)

\* "".join(parts)
RECURSIVE Concat(_)
Concat(parts) == IF parts = <<>> THEN <<>> ELSE parts[1] \o Concat(Tail(parts))

\* s.replace(old, new), old not empty
Replace(s, old, new) == Join(Split(s, old, -1), new)

\* s.rstrip(chars)
RStrip(s, chars) ==
    LET keep == {i \in 1..Len(s) : s[i] \notin chars}
    IN  IF keep = {} THEN <<>>
        ELSE SubSeq(s, 1, CHOOSE i \in keep : \A j \in keep : j <= i)

\* s.strip()
Strip(s) ==
    LET keep == {i \in 1..Len(s) : s[i] \notin Whitespace}
    IN  IF keep = {} THEN <<>>
        ELSE SubSeq(s, Min(keep), CHOOSE i \in keep : \A j \in keep : j <= i)

\* the end (exclusive) of the longest run of characters of set that starts at i
SpanEnd(s, i, set) ==
    Min({j \in i..(Len(s) + 1) : j = Len(s) + 1 \/ s[j] \notin set})

-----------------------------------------------------------------------------
(* Python float: parsing, repr and fixed-point formatting *)

RECURSIVE Pow10(_)
Pow10(k) == IF k = 0 THEN 1 ELSE 10 * Pow10(k - 1)

DigitVal(c) == (CHOOSE i \in 1..10 : DigitChars[i] = c) - 1

RECURSIVE DigitsToNat(_)
DigitsToNat(ds) ==
    IF ds = <<>> THEN 0
    ELSE 10 * DigitsToNat(SubSeq(ds, 1, Len(ds) - 1)) + DigitVal(ds[Len(ds)])

RECURSIVE NatToDigits(_)
NatToDigits(n) ==
    IF n < 10 THEN <<DigitChars[n + 1]>>
    ELSE NatToDigits(n \div 10) \o <<DigitChars[(n % 10) + 1]>>

\* n written with exactly width digits (n < 10^width)
RECURSIVE PadDigits(_, _)
PadDigits(n, width) ==
    IF width = 0 THEN <<>>
    ELSE PadDigits(n \div 10, width - 1) \o <<DigitChars[(n % 10) + 1]>>

\* the same value with the trailing zeros of the fraction dropped
RECURSIVE Normalize(_)
Normalize(f) ==
    IF f.scale > 0 /\ f.num % 10 = 0
    THEN Normalize([num |-> f.num \div 10, scale |-> f.scale - 1])
    ELSE f

\* whether float(t) succeeds, for a t made of digits and dots
IsFloatLiteral(t) ==
    /\ Cardinality({i \in 1..Len(t) : t[i] = "."}) <= 1
    /\ \E i \in 1..Len(t) : t[i] \in Digits

\* float(t), for a t with IsFloatLiteral(t)
ParseFloat(t) ==
    LET dot  == Find(t, <<".">>, 1)
        int  == IF dot = 0 THEN t ELSE SubSeq(t, 1, dot - 1)
        frac == IF dot = 0 THEN <<>> ELSE SubSeq(t, dot + 1, Len(t))
    IN  Normalize([num |-> DigitsToNat(int \o frac), scale |-> Len(frac)])

\* repr(x) and str(x) of a float: the shortest decimal, with at least one
\* fractional digit
Repr(x) ==
    LET f == Normalize(x)
        p == Pow10(f.scale)
    IN  NatToDigits(f.num \div p) \o <<".">>
        \o (IF f.scale = 0 THEN <<"0">> ELSE PadDigits(f.num % p, f.scale))

\* x rounded to d decimals, as the integer x * 10^d.  A decimal tie goes to
\* the even neighbour, which is what the binary value gives when the tie is
\* exactly representable (x.125, x.25, x.5, ...).
RoundScaled(x, d) ==
    IF x.scale <= d THEN x.num * Pow10(d - x.scale)
    ELSE LET p == Pow10(x.scale - d)
             q == x.num \div p
             r == x.num % p
         IN  IF 2 * r > p THEN q + 1
             ELSE IF 2 * r < p THEN q
             ELSE IF q % 2 = 0 THEN q ELSE q + 1

\* f"{x:.{d}f}", d >= 1
FormatFixed(x, d) ==
    LET n == RoundScaled(x, d)
        p == Pow10(d)
    IN  NatToDigits(n \div p) \o <<".">> \o PadDigits(n % p, d)

\* round(x, d)
Round(x, d) == Normalize([num |-> RoundScaled(x, d), scale |-> d])

-----------------------------------------------------------------------------
(* MESSAGE PROCESSING *)

WorstMarker == <<"W", "o", "r", "s", "t", ":">>

\* the characters of [0-9.]
NumChars == Digits \cup {"."}

\* one match of (\w{2}) \(([0-9.]+)%\) starting at i: the position after
\* it, or 0 when the pattern does not match at i
WorstMatchEnd(s, i) ==
    IF /\ i + 3 <= Len(s)
       /\ s[i] \in WordChars
       /\ s[i + 1] \in WordChars
       /\ s[i + 2] = " "
       /\ s[i + 3] = "("
    THEN LET e == SpanEnd(s, i + 4, NumChars)
         IN  IF e > i + 4 /\ e + 1 <= Len(s) /\ s[e] = "%" /\ s[e + 1] = ")"
             THEN e + 2
             ELSE 0
    ELSE 0

\* re.findall of the pattern from position i: the (bigram, percent) groups
\* of the non-overlapping matches, left to right
RECURSIVE FindAllWorst(_, _)
FindAllWorst(s, i) ==
    IF i > Len(s) THEN <<>>
    ELSE LET e == WorstMatchEnd(s, i)
         IN  IF e = 0 THEN FindAllWorst(s, i + 1)
             ELSE <<[bigram |-> SubSeq(s, i, i + 1),
                     percent |-> SubSeq(s, i + 4, e - 3)]>>
                  \o FindAllWorst(s, e)

\* message.split("Worst:")[1], cut at its first ";"
WorstSection(msg) ==
    LET worst_section == Split(msg, WorstMarker, -1)[2]
    IN  IF Contains(worst_section, <<";">>)
        THEN Split(worst_section, <<";">>, -1)[1]
        ELSE worst_section

\* A call either returns a value or raises: [raised, value]
Returned(v) == [raised |-> FALSE, value |-> v]

Raised == [raised |-> TRUE, value |-> <<>>]

extract_worst_bigrams(msg) ==
    IF ~Contains(msg, WorstMarker) THEN Returned(<<>>)
    ELSE LET matches == FindAllWorst(WorstSection(msg), 1)
         IN  IF \E i \in 1..Len(matches) : ~IsFloatLiteral(matches[i].percent)
             THEN Raised    \* float(percent): ValueError
             ELSE Returned([i \in 1..Len(matches) |->
                      [bigram |-> matches[i].bigram,
                       percent |-> ParseFloat(matches[i].percent)]])

Zero == [num |-> 0, scale |-> 0]

\* bigram_frequencies.get(bigram, 0)
GetFrequency(table, bigram) ==
    IF bigram \in DOMAIN table THEN table[bigram] ELSE Zero

\* f"{bigram} ({percent}%, freq: {freq_str})"
EnhancedPart(table, w) ==
    LET freq     == GetFrequency(table, w.bigram)
        freq_str == RStrip(RStrip(FormatFixed(freq, 2) \o <<"%">>, {"0"}), {"."})
    IN  w.bigram \o <<" ", "(">> \o Repr(w.percent) \o <<"%", ",", " ", "f", "r", "e", "q", ":", " ">> \o freq_str \o <<")">>

\* add_frequencies without its early return: the message is rebuilt whatever
\* was extracted
add_frequencies_rebuilds_always(msg, table) ==
    LET extracted == extract_worst_bigrams(msg)
    IN  IF extracted.raised THEN Raised
        ELSE
          LET found == extracted.value
              enhanced_parts == [i \in 1..Len(found) |-> EnhancedPart(table, found[i])]
              before_worst == Split(msg, WorstMarker, -1)[1]
              enhanced == before_worst \o <<"W", "o", "r", "s", "t", ":", " ">> \o Join(enhanced_parts, <<",", " ">>)
          IN  IF Contains(msg, <<";">>)
              THEN Returned(enhanced \o <<";">> \o Split(msg, <<";">>, 1)[2])
              ELSE Returned(enhanced)

add_frequencies(msg, table) ==
    LET extracted == extract_worst_bigrams(msg)
    IN  IF extracted.raised THEN Raised
        ELSE IF extracted.value = <<>> \/ ~Contains(msg, WorstMarker)
        THEN Returned(msg)
        ELSE
          LET found == extracted.value
              enhanced_parts == [i \in 1..Len(found) |-> EnhancedPart(table, found[i])]
              before_worst == Split(msg, WorstMarker, -1)[1]
              enhanced == before_worst \o <<"W", "o", "r", "s", "t", ":", " ">> \o Join(enhanced_parts, <<",", " ">>)
          IN  IF Contains(msg, <<";">>)
              THEN Returned(enhanced \o <<";">> \o Split(msg, <<";">>, 1)[2])
              ELSE Returned(enhanced)

\* format_freq: f"{freq_value:.3f}".rstrip("0").rstrip("."), with ".0"
\* restored when no "." is left
FormatFreq(group) ==
    LET formatted == RStrip(RStrip(FormatFixed(ParseFloat(group), 3), {"0"}), {"."})
    IN  <<"f", "r", "e", "q", ":", " ">> \o (IF Contains(formatted, <<".">>) THEN formatted
                      ELSE formatted \o <<".", "0">>)

\* re.sub(r"freq: (\d+\.?\d*)", format_freq, message), from position i
RECURSIVE SubFreq(_, _)
SubFreq(s, i) ==
    IF i > Len(s) THEN <<>>
    ELSE IF MatchAt(s, <<"f", "r", "e", "q", ":", " ">>, i) /\ i + 6 <= Len(s) /\ s[i + 6] \in Digits
    THEN LET d1 == SpanEnd(s, i + 6, Digits)
             d2 == IF d1 <= Len(s) /\ s[d1] = "."
                   THEN SpanEnd(s, d1 + 1, Digits) ELSE d1
         IN  FormatFreq(SubSeq(s, i + 6, d2 - 1)) \o SubFreq(s, d2)
    ELSE <<s[i]>> \o SubFreq(s, i + 1)

format_frequencies(msg) == SubFreq(msg, 1)

NonFixedMarker == <<";", " ", " ", "W", "o", "r", "s", "t", " ", "n", "o", "n", "-", "f", "i", "x", "e", "d", ":">>

Prefixes == <<<<"F", "i", "n", "g", "e", "r", " ", "l", "o", "a", "d", "s", " ", "%", " ", "(", "n", "o", " ", "t", "h", "u", "m", "b", ")", ":", " ">>, <<"H", "a", "n", "d", " ", "l", "o", "a", "d", "s", " ", "%", " ", "(", "n", "o", " ", "t", "h", "u", "m", "b", ")", ":", " ">>, <<"W", "o", "r", "s", "t", ":", " ">>>>

\* one match of \d+\.\d+ starting at i, taken greedily: the position after
\* it, or 0
DecimalEnd(s, i) ==
    IF i <= Len(s) /\ s[i] \in Digits
    THEN LET d1 == SpanEnd(s, i, Digits)
         IN  IF d1 + 1 <= Len(s) /\ s[d1] = "." /\ s[d1 + 1] \in Digits
             THEN SpanEnd(s, d1 + 1, Digits)
             ELSE 0
    ELSE 0

\* one match of (\d+\.\d+)(?!%\)) starting at i: when "%)" follows the
\* greedy match the engine backtracks by one fractional digit, if it can
BareDecimalEnd(s, i) ==
    LET e == DecimalEnd(s, i)
    IN  IF e = 0 THEN 0
        ELSE IF ~MatchAt(s, <<"%", ")">>, e) THEN e
        ELSE IF s[e - 2] \in Digits THEN e - 1
        ELSE 0

\* re.sub(r"(\d+\.\d+)(?!%\))", <.1f>, message), from position i
RECURSIVE SubBareDecimals(_, _)
SubBareDecimals(s, i) ==
    IF i > Len(s) THEN <<>>
    ELSE LET e == BareDecimalEnd(s, i)
         IN  IF e = 0 THEN <<s[i]>> \o SubBareDecimals(s, i + 1)
             ELSE FormatFixed(ParseFloat(SubSeq(s, i, e - 1)), 1)
                  \o SubBareDecimals(s, e)

\* re.sub(r"(\d+\.\d+)%,", <.2f>%, , message), from position i
RECURSIVE SubPercentDecimals(_, _)
SubPercentDecimals(s, i) ==
    IF i > Len(s) THEN <<>>
    ELSE LET e == DecimalEnd(s, i)
         IN  IF e # 0 /\ MatchAt(s, <<"%", ",">>, e)
             THEN FormatFixed(ParseFloat(SubSeq(s, i, e - 1)), 2) \o <<"%", ",">>
                  \o SubPercentDecimals(s, e + 2)
             ELSE <<s[i]>> \o SubPercentDecimals(s, i + 1)

clean_worst_message(msg, name) ==
    LET m1 == IF Contains(msg, NonFixedMarker)
              THEN Split(msg, NonFixedMarker, -1)[1] ELSE msg
        m2 == Replace(Replace(Replace(m1, Prefixes[1], <<>>), Prefixes[2], <<>>),
                      Prefixes[3], <<>>)
        m3 == IF name \in {"Hand Disbalance", "Finger Balance"}
              THEN SubBareDecimals(m2, 1)
              ELSE SubPercentDecimals(m2, 1)
    IN  Strip(m3)

-----------------------------------------------------------------------------
(* LAYOUT PARSING AND PROCESSING *)

\* a Python dict: its items in insertion order, the keys distinct
DictKeys(d) == [i \in 1..Len(d) |-> d[i].key]

HasKey(d, k) == \E i \in 1..Len(d) : d[i].key = k

\* d[k], for a key of d
DictGet(d, k) == d[CHOOSE i \in 1..Len(d) : d[i].key = k].value

\* d[k] = v: a new key goes last, a known key keeps its place
DictSet(d, k, v) ==
    IF HasKey(d, k)
    THEN [i \in 1..Len(d) |-> IF d[i].key = k THEN [key |-> k, value |-> v] ELSE d[i]]
    ELSE Append(d, [key |-> k, value |-> v])

\* (display header, source metric, format kind, decimals; 0 stands for None)
METRICS_ORDER ==
    << [display |-> <<"T", "o", "t", "a", "l", " ", "C", "o", "s", "t">>, metric |-> "total_cost", format |-> "number", decimals |-> 1],
       [display |-> <<"H", "a", "n", "d", "s", " ", "D", "i", "s", "b", "a", "l", "a", "n", "c", "e">>, metric |-> "Hand Disbalance", format |-> "message_only", decimals |-> 0],
       [display |-> <<"F", "i", "n", "g", "e", "r", " ", "D", "i", "s", "b", "a", "l", "a", "n", "c", "e">>, metric |-> "Finger Balance", format |-> "message_only", decimals |-> 0],
       [display |-> <<"C", "l", "u", "s", "t", "e", "r", " ", "R", "o", "l", "l", "s">>, metric |-> "Cluster Rolls", format |-> "number", decimals |-> 2],
       [display |-> <<"S", "c", "i", "s", "s", "o", "r", "i", "n", "g">>, metric |-> "Scissoring", format |-> "number", decimals |-> 2],
       [display |-> <<"K", "e", "y", " ", "C", "o", "s", "t", "s">>, metric |-> "Key Costs", format |-> "number", decimals |-> 2],
       [display |-> <<"M", "o", "v", "e", "m", "e", "n", "t", " ", "P", "a", "t", "t", "e", "r", "n">>, metric |-> "Movement Pattern", format |-> "number", decimals |-> 2],
       [display |-> <<"C", "l", "u", "s", "t", "e", "r", " ", "R", "o", "l", "l", "s", " ", "W", "o", "r", "s", "t">>, metric |-> "Cluster Rolls", format |-> "worst_only", decimals |-> 0],
       [display |-> <<"S", "c", "i", "s", "s", "o", "r", "i", "n", "g", " ", "W", "o", "r", "s", "t">>, metric |-> "Scissoring", format |-> "worst_only", decimals |-> 0],
       [display |-> <<"M", "o", "v", "e", "m", "e", "n", "t", " ", "P", "a", "t", "t", "e", "r", "n", " ", "W", "o", "r", "s", "t">>, metric |-> "Movement Pattern", format |-> "worst_only", decimals |-> 0],
       [display |-> <<"S", "e", "c", "o", "n", "d", "a", "r", "y", " ", "B", "i", "g", "r", "a", "m", "s", " ", "W", "o", "r", "s", "t">>, metric |-> "Secondary Bigrams", format |-> "worst_only", decimals |-> 0],
       [display |-> <<"T", "r", "i", "g", "r", "a", "m", "s", " ", "W", "o", "r", "s", "t">>, metric |-> "No Handswitch in Trigram", format |-> "worst_only", decimals |-> 0] >>

COLUMN_HEADERS == <<<<"L", "a", "y", "o", "u", "t">>>> \o [i \in 1..Len(METRICS_ORDER) |-> METRICS_ORDER[i].display]

\* the value of a row's cell: a float (a rounded cost) or a str
FloatCell(x) == [kind |-> "float", float |-> x, str |-> <<>>]

StrCell(s) == [kind |-> "str", float |-> Zero, str |-> s]

\* str(value)
Str(cell) == IF cell.kind = "float" THEN Repr(cell.float) ELSE cell.str

\* bool(value): 0.0 and "" are false
Truthy(cell) == IF cell.kind = "float" THEN cell.float.num # 0 ELSE cell.str # <<>>

\* the inner loop keeping the first entry of a metric name instead of the last
ProcessMetricCostKeepsFirst(metric_cost, table, metrics) ==
    LET core == metric_cost.core
    IN  IF HasKey(metrics, core.name) THEN Returned(metrics)
        ELSE IF core.name \in {"Scissoring", "Cluster Rolls"} /\ table # <<>>
        THEN LET enhanced == add_frequencies(core.message, table)
             IN  IF enhanced.raised THEN Raised
                 ELSE Returned(DictSet(metrics, core.name,
                          [cost |-> metric_cost.weighted_cost,
                           message |-> format_frequencies(enhanced.value)]))
        ELSE Returned(DictSet(metrics, core.name,
                 [cost |-> metric_cost.weighted_cost, message |-> core.message]))

\* one pass of the inner loop of process_layout_metrics
ProcessMetricCost(metric_cost, table, metrics) ==
    LET core == metric_cost.core
    IN  IF core.name \in {"Scissoring", "Cluster Rolls"} /\ table # <<>>
        THEN LET enhanced == add_frequencies(core.message, table)
             IN  IF enhanced.raised THEN Raised
                 ELSE Returned(DictSet(metrics, core.name,
                          [cost |-> metric_cost.weighted_cost,
                           message |-> format_frequencies(enhanced.value)]))
        ELSE Returned(DictSet(metrics, core.name,
                 [cost |-> metric_cost.weighted_cost, message |-> core.message]))

\* for metric_cost in individual_result["metric_costs"], from the i-th on
RECURSIVE ProcessMetricCosts(_, _, _, _)
ProcessMetricCosts(metric_costs, i, table, acc) ==
    IF acc.raised \/ i > Len(metric_costs) THEN acc
    ELSE ProcessMetricCosts(metric_costs, i + 1, table,
             ProcessMetricCost(metric_costs[i], table, acc.value))

\* for individual_result in result["details"]["individual_results"], from the i-th on
RECURSIVE ProcessIndividualResults(_, _, _, _)
ProcessIndividualResults(individual_results, i, table, acc) ==
    IF acc.raised \/ i > Len(individual_results) THEN acc
    ELSE ProcessIndividualResults(individual_results, i + 1, table,
             ProcessMetricCosts(individual_results[i].metric_costs, 1, table, acc))

process_layout_metrics(result, table) ==
    ProcessIndividualResults(result.details.individual_results, 1, table, Returned(<<>>))

\* the value build_layout_row gives the column of one METRICS_ORDER entry
ColumnValue(m, total_cost, metrics) ==
    IF m.format = "number" /\ m.display = <<"T", "o", "t", "a", "l", " ", "C", "o", "s", "t">>
    THEN FloatCell(Round(total_cost, m.decimals))
    ELSE IF m.format = "number" /\ HasKey(metrics, m.metric)
    THEN FloatCell(Round(DictGet(metrics, m.metric).cost, m.decimals))
    ELSE IF m.format \in {"message_only", "worst_only"} /\ HasKey(metrics, m.metric)
    THEN StrCell(clean_worst_message(DictGet(metrics, m.metric).message, m.metric))
    ELSE StrCell(<<>>)

\* build_layout_row without its else branch: a column whose metric is absent
\* gets no key
RECURSIVE BuildColumnsOmitsAbsent(_, _, _, _)
BuildColumnsOmitsAbsent(i, total_cost, metrics, row) ==
    IF i > Len(METRICS_ORDER) THEN row
    ELSE BuildColumnsOmitsAbsent(i + 1, total_cost, metrics,
             IF METRICS_ORDER[i].display = <<"T", "o", "t", "a", "l", " ", "C", "o", "s", "t">>
                \/ HasKey(metrics, METRICS_ORDER[i].metric)
             THEN DictSet(row, METRICS_ORDER[i].display,
                          ColumnValue(METRICS_ORDER[i], total_cost, metrics))
             ELSE row)

\* the loop of build_layout_row over METRICS_ORDER, from the i-th entry on
RECURSIVE BuildColumns(_, _, _, _)
BuildColumns(i, total_cost, metrics, row) ==
    IF i > Len(METRICS_ORDER) THEN row
    ELSE BuildColumns(i + 1, total_cost, metrics,
             DictSet(row, METRICS_ORDER[i].display,
                     ColumnValue(METRICS_ORDER[i], total_cost, metrics)))

build_layout_row(layout, total_cost, metrics) ==
    BuildColumns(1, total_cost, metrics,
                 DictSet(<<>>, COLUMN_HEADERS[1], StrCell(layout)))

\* a < b on floats
FloatLess(a, b) == a.num * Pow10(b.scale) < b.num * Pow10(a.scale)

\* an insertion that is not stable: x goes before the elements equal to it
RECURSIVE InsertBeforeEqual(_, _)
InsertBeforeEqual(sorted, x) ==
    IF sorted = <<>> THEN <<x>>
    ELSE IF ~FloatLess(sorted[1].total_cost, x.total_cost)
    THEN <<x>> \o sorted
    ELSE <<sorted[1]>> \o InsertBeforeEqual(Tail(sorted), x)

\* x placed into a list sorted by total_cost, after the elements that are not
\* greater: sorted() is stable
RECURSIVE InsertSorted(_, _)
InsertSorted(sorted, x) ==
    IF sorted = <<>> THEN <<x>>
    ELSE IF FloatLess(x.total_cost, sorted[1].total_cost)
    THEN <<x>> \o sorted
    ELSE <<sorted[1]>> \o InsertSorted(Tail(sorted), x)

\* sorted(data, key=lambda x: x["total_cost"])
RECURSIVE SortedByTotalCost(_)
SortedByTotalCost(results) ==
    IF results = <<>> THEN <<>>
    ELSE InsertSorted(SortedByTotalCost(SubSeq(results, 1, Len(results) - 1)),
                      results[Len(results)])

\* whether the fields parse_layouts reads of a result are there (else KeyError)
HasFields(result) ==
    /\ "total_cost" \in DOMAIN result
    /\ "details" \in DOMAIN result

\* [rec[h] for h in COLUMN_HEADERS], as csv.writer writes the cells
CsvRow(rec) == [j \in 1..Len(COLUMN_HEADERS) |-> Str(DictGet(rec, COLUMN_HEADERS[j]))]

-----------------------------------------------------------------------------
(* LAYOUT DIAGRAM PARSING AND SVG GENERATION *)

SectionMarker == <<"L", "a", "y", "o", "u", "t", " ", "(", "l", "a", "y", "e", "r", " ", "1", ")", ":">>

\* text.split("\n")
Lines(text) == Split(text, <<"\n">>, -1)

\* the first index of a line containing "Layout (layer 1):", 0 for none
MarkerLine(lines) ==
    LET hits == {i \in 1..Len(lines) : Contains(lines[i], SectionMarker)}
    IN  IF hits = {} THEN 0 ELSE Min(hits)

\* the loop of parse_layout_diagram over lines[start_idx:], from line i on
RECURSIVE DiagramLines(_, _)
DiagramLines(lines, i) ==
    IF i > Len(lines) THEN <<>>
    ELSE IF Contains(lines[i], <<"L", "a", "y", "o", "u", "t", " ", "s", "t", "r", "i", "n", "g">>) THEN <<>>
    ELSE IF Strip(lines[i]) # <<>> THEN <<lines[i]>> \o DiagramLines(lines, i + 1)
    ELSE DiagramLines(lines, i + 1)

parse_layout_diagram(text) ==
    LET lines == Lines(text)
    IN  IF MarkerLine(lines) = 0 THEN <<>>
        ELSE DiagramLines(lines, MarkerLine(lines) + 1)

\* the glyph export_svg compares each character with: a string of three
\* characters in the source file, named here by their code points
PlaceholderGlyph == <<"U+00E2", "U+2013", "U+00A1">>

\* the markup export_svg prints for one character
StyledChar(char) ==
    IF <<char>> = PlaceholderGlyph THEN <<"[", "g", "r", "a", "y", "]">> \o <<char>> \o <<"[", "/", "g", "r", "a", "y", "]">>
    ELSE IF char \in Letters THEN <<"[", "y", "e", "l", "l", "o", "w", "]">> \o <<char>> \o <<"[", "/", "y", "e", "l", "l", "o", "w", "]">>
    ELSE <<char>>

\* export_svg: what is rendered into the file, one styled line per line
export_svg(layout_lines) ==
    [i \in 1..Len(layout_lines) |->
        Concat([k \in 1..Len(layout_lines[i]) |-> StyledChar(layout_lines[i][k])])]

\* the loop of parse_diagrams that cuts the lines into sections, from line i on
RECURSIVE SplitSections(_, _, _, _)
SplitSections(lines, i, current, sections) ==
    IF i > Len(lines)
    THEN IF current # <<>>
         THEN Append(sections, Join(current, <<"\n">>))
         ELSE sections
    ELSE IF StartsWith(lines[i], SectionMarker) /\ current # <<>>
    THEN SplitSections(lines, i + 1, <<lines[i]>>,
                       Append(sections, Join(current, <<"\n">>)))
    ELSE SplitSections(lines, i + 1, Append(current, lines[i]), sections)

LayoutStringPattern == <<"L", "a", "y", "o", "u", "t", " ", "s", "t", "r", "i", "n", "g", " ", "(", "l", "a", "y", "e", "r", " ", "1", ")", ":", "\n">>

\* re.search(r"Layout string \(layer 1\):\n(.+)", section) from position
\* from: the start of group 1, 0 for no match
RECURSIVE SearchLayoutString(_, _)
SearchLayoutString(section, from) ==
    LET i == Find(section, LayoutStringPattern, from)
        g == i + Len(LayoutStringPattern)
    IN  IF i = 0 THEN 0
        ELSE IF g <= Len(section) /\ section[g] # "\n" THEN g
        ELSE SearchLayoutString(section, i + 1)

\* the layout string taken without strip()
LayoutStringUntrimmed(section) ==
    LET g == SearchLayoutString(section, 1)
        e == Min({j \in g..(Len(section) + 1) : j = Len(section) + 1 \/ section[j] = "\n"})
    IN  SubSeq(section, g, e - 1)

\* layout_string_match.group(1).strip(), for a section that matches
LayoutStringOf(section) ==
    LET g == SearchLayoutString(section, 1)
        e == Min({j \in g..(Len(section) + 1) : j = Len(section) + 1 \/ section[j] = "\n"})
    IN  Strip(SubSeq(section, g, e - 1))

\* output_path / f"{layout_string}.svg", for a layout string without "/"
SvgPath(output_dir, layout_string) == output_dir \o <<"/">> \o layout_string \o <<".", "s", "v", "g">>

\* Path(p).name
PathName(p) ==
    LET slashes == {i \in 1..Len(p) : p[i] = "/"}
    IN  IF slashes = {} THEN p
        ELSE SubSeq(p, (CHOOSE i \in slashes : \A j \in slashes : j <= i) + 1, Len(p))

\* whether the loop of parse_diagrams skips the section
SkipsSection(section) ==
    \/ SearchLayoutString(section, 1) = 0
    \/ parse_layout_diagram(section) = <<>>

-----------------------------------------------------------------------------
(* EXPORT FUNCTIONS: the Markdown report *)

UpperChars == <<"A", "B", "C", "D", "E", "F", "G", "H", "I", "J", "K", "L", "M", "N", "O", "P", "Q", "R", "S", "T", "U", "V", "W", "X", "Y", "Z">>

LowerChars == <<"a", "b", "c", "d", "e", "f", "g", "h", "i", "j", "k", "l", "m", "n", "o", "p", "q", "r", "s", "t", "u", "v", "w", "x", "y", "z">>

\* str.lower()
Lower(s) ==
    [i \in 1..Len(s) |->
        IF \E k \in 1..26 : UpperChars[k] = s[i]
        THEN LowerChars[CHOOSE k \in 1..26 : UpperChars[k] = s[i]]
        ELSE s[i]]

\* rec.get(key, "")
RecGet(rec, key) == IF HasKey(rec, key) THEN DictGet(rec, key) ELSE StrCell(<<>>)

\* layout.replace(' ', '_').lower()
Anchor(layout) == Lower(Replace(layout, <<" ">>, <<"_">>))

\* f"[{layout}](#{anchor})"
LayoutLink(layout) == <<"[">> \o layout \o <<"]", "(", "#">> \o Anchor(layout) \o <<")">>

\* the lines of the table of contents
TocItems(recs) ==
    <<<<"-", " ", "[", "S", "u", "m", "m", "a", "r", "y", "]", "(", "#", "s", "u", "m", "m", "a", "r", "y", ")">>, <<"-", " ", "[", "L", "a", "y", "o", "u", "t", " ", "D", "e", "t", "a", "i", "l", "s", "]", "(", "#", "l", "a", "y", "o", "u", "t", "-", "d", "e", "t", "a", "i", "l", "s", ")">>>>
    \o [i \in 1..Len(recs) |-> <<" ", " ", "-", " ">> \o LayoutLink(DictGet(recs[i], <<"L", "a", "y", "o", "u", "t">>).str)]
    \o <<<<"-", " ", "[", "M", "e", "t", "r", "i", "c", "s", " ", "D", "e", "s", "c", "r", "i", "p", "t", "i", "o", "n", "]", "(", "#", "m", "e", "t", "r", "i", "c", "s", "-", "d", "e", "s", "c", "r", "i", "p", "t", "i", "o", "n", ")">>>>

\* the row keys of the Summary table, between the SVG cell and the link
SummaryMetrics ==
    <<<<"T", "o", "t", "a", "l", " ", "C", "o", "s", "t">>, <<"H", "a", "n", "d", "s", " ", "D", "i", "s", "b", "a", "l", "a", "n", "c", "e">>, <<"F", "i", "n", "g", "e", "r", " ", "D", "i", "s", "b", "a", "l", "a", "n", "c", "e">>, <<"C", "l", "u", "s", "t", "e", "r", " ", "R", "o", "l", "l", "s">>,
      <<"S", "c", "i", "s", "s", "o", "r", "i", "n", "g">>>>

\* dict(generated_layouts): a key keeps its first position and its last value
RECURSIVE LayoutToSvg(_)
LayoutToSvg(pairs) ==
    IF pairs = <<>> THEN <<>>
    ELSE DictSet(LayoutToSvg(SubSeq(pairs, 1, Len(pairs) - 1)),
                 pairs[Len(pairs)][1], pairs[Len(pairs)][2])

ImgTag(name) == <<"<", "i", "m", "g", " ", "s", "r", "c", "=", "\"", "s", "v", "g", "s", "/">> \o name \o <<"\"", " ", "w", "i", "d", "t", "h", "=", "\"", "6", "0", "0", "\"", ">">>

\* the cell that refers to an image whether or not a diagram was generated
SvgCellWithoutLookup(layout, layout_to_svg) == ImgTag(layout \o <<".", "s", "v", "g">>)

\* the SVG cell of a Summary row
SvgCell(layout, layout_to_svg) ==
    IF HasKey(layout_to_svg, layout)
    THEN ImgTag(PathName(DictGet(layout_to_svg, layout)))
    ELSE <<>>

\* the cells of the Summary row of a record
SummaryRow(rec, layout_to_svg) ==
    LET layout == DictGet(rec, <<"L", "a", "y", "o", "u", "t">>).str
    IN  <<SvgCell(layout, layout_to_svg)>>
        \o [k \in 1..Len(SummaryMetrics) |-> Str(RecGet(rec, SummaryMetrics[k]))]
        \o <<LayoutLink(layout)>>

\* metrics_data of a details section: (header, str(value)) pairs
DetailMetrics(rec) ==
    LET Keep(header) == /\ ~Contains(header, <<"W", "o", "r", "s", "t">>)
                        /\ header # <<"T", "o", "t", "a", "l", " ", "C", "o", "s", "t">>
                        /\ Truthy(RecGet(rec, header))
        kept == SelectSeq(Tail(COLUMN_HEADERS), Keep)
    IN  [k \in 1..Len(kept) |-> <<kept[k], Str(RecGet(rec, kept[k]))>>]

\* worst_cases of a details section: (label, value) pairs
WorstCases(rec) ==
    LET Keep(header) == /\ Contains(header, <<"W", "o", "r", "s", "t">>)
                        /\ Truthy(RecGet(rec, header))
        kept == SelectSeq(Tail(COLUMN_HEADERS), Keep)
    IN  [k \in 1..Len(kept) |->
            <<Replace(kept[k], <<" ", "W", "o", "r", "s", "t">>, <<>>), Str(RecGet(rec, kept[k]))>>]

\* the details section of a record
DetailSection(rec) ==
    [layout       |-> DictGet(rec, <<"L", "a", "y", "o", "u", "t">>).str,
     total_cost   |-> Str(RecGet(rec, <<"T", "o", "t", "a", "l", " ", "C", "o", "s", "t">>)),
     metrics_data |-> DetailMetrics(rec),
     worst_cases  |-> WorstCases(rec)]

\* export_markdown: what is written, part by part
export_markdown(recs, pairs) ==
    [toc     |-> TocItems(recs),
     summary |-> [i \in 1..Len(recs) |-> SummaryRow(recs[i], LayoutToSvg(pairs))],
     details |-> [i \in 1..Len(recs) |-> DetailSection(recs[i])]]

-----------------------------------------------------------------------------
(* MAIN: the order of its calls *)

\* the position main reaches when a call returns
MainExportsCsvLast(step) ==
    CASE step = "parse"    -> "txt"
      [] step = "diagrams" -> "markdown"
      [] step = "markdown" -> "export"
      [] step = "csv"      -> "done"

MainAfter(step) ==
    CASE step = "parse"    -> "export"
      [] step = "csv"      -> "txt"
      [] step = "diagrams" -> "markdown"
      [] step = "markdown" -> "done"

-----------------------------------------------------------------------------
(* The message functions, applied to bounded messages *)

Fragments ==
    { <<"a">>, <<"W", "o", "r", "s", "t", ":">>, <<";">>, <<" ", "t", "h", " ", "(", "4", ".", "3", "2", "%", ")">>, <<",", " ", "h", "e", " ", "(", "5", "%", ")">>, <<" ", "a", "b", " ", "(", ".", "%", ")">> }

Messages ==
    {Concat(fs) : fs \in UNION {[1..n -> Fragments] : n \in 0..MaxFrags}}

Milli(n) == [num |-> n, scale |-> 3]

\* frequency tables as load_bigram_frequencies builds them: two-letter keys
FrequencyTables ==
    { <<>>,
      (<<"t", "h">> :> Normalize(Milli(4500))),
      (<<"t", "h">> :> Normalize(Milli(4126)) @@ <<"h", "e">> :> Normalize(Milli(300))) }

MetricNames == {"Scissoring", "Finger Balance"}

NotRun == [raised |-> FALSE, value |-> <<"?">>]

\* the variables of the other components, while they do not run
\* a file that is not there
NoFile == [exists |-> FALSE, content |-> <<>>]

NoDiagrams ==
    /\ txt_file = NoFile
    /\ md_file = NoFile
    /\ layout_sections = <<>>
    /\ next_section = 0
    /\ generated_layouts = <<>>
    /\ svg_files = <<>>

RowsIdle ==
    /\ data = <<>>
    /\ sorted_data = <<>>
    /\ metrics_data = <<>>
    /\ records = <<>>
    /\ csv_file = NoFile

InitMsg ==
    /\ pc = "extract"
    /\ message \in Messages
    /\ metric_name \in MetricNames
    /\ bigram_frequencies \in FrequencyTables
    /\ worst_bigrams = NotRun
    /\ enhanced_message = NotRun
    /\ formatted_message = NotRun
    /\ cleaned_message = NotRun
    /\ RowsIdle
    /\ NoDiagrams

ExtractWorstBigrams ==
    /\ pc = "extract"
    /\ worst_bigrams' = extract_worst_bigrams(message)
    /\ pc' = "add"
    /\ UNCHANGED <<message, metric_name, bigram_frequencies, md_file, enhanced_message,
                   formatted_message, cleaned_message,
                   rowVars, diagVars>>

AddFrequencies ==
    /\ pc = "add"
    /\ enhanced_message' = add_frequencies(message, bigram_frequencies)
    /\ pc' = IF enhanced_message'.raised THEN "raised" ELSE "format"
    /\ UNCHANGED <<message, metric_name, bigram_frequencies, md_file, worst_bigrams,
                   formatted_message, cleaned_message,
                   rowVars, diagVars>>

FormatFrequencies ==
    /\ pc = "format"
    /\ formatted_message' = Returned(format_frequencies(enhanced_message.value))
    /\ pc' = "clean"
    /\ UNCHANGED <<message, metric_name, bigram_frequencies, md_file, worst_bigrams,
                   enhanced_message, cleaned_message,
                   rowVars, diagVars>>

CleanWorstMessage ==
    /\ pc = "clean"
    /\ cleaned_message' =
           Returned(clean_worst_message(formatted_message.value, metric_name))
    /\ pc' = "done"
    /\ UNCHANGED <<message, metric_name, bigram_frequencies, md_file, worst_bigrams,
                   enhanced_message, formatted_message,
                   rowVars, diagVars>>

NextMsg ==
    \/ ExtractWorstBigrams
    \/ AddFrequencies
    \/ FormatFrequencies
    \/ CleanWorstMessage

SpecMsg == InitMsg /\ [][NextMsg]_vars

-----------------------------------------------------------------------------
(* Claims about the message functions (SpecMsg) *)

\* the text after the first "Worst:" and before the next ";"
SectionAfterMarker(msg) ==
    LET start == Find(msg, WorstMarker, 1) + Len(WorstMarker)
        semi  == Find(msg, <<";">>, start)
    IN  SubSeq(msg, start, IF semi = 0 THEN Len(msg) ELSE semi - 1)

\* one pair per occurrence of "two word characters, space, (, decimal
\* number, %, )" in that text, left to right
PairsAfterMarker(msg) ==
    LET found == SelectSeq(FindAllWorst(SectionAfterMarker(msg), 1),
                           LAMBDA m : IsFloatLiteral(m.percent))
    IN  [i \in 1..Len(found) |->
            [bigram |-> found[i].bigram, percent |-> ParseFloat(found[i].percent)]]

\* C3: for every message extract_worst_bigrams returns the empty list when
\* there is no "Worst:" marker, and otherwise exactly one pair per occurrence
\* of the pattern in the text between "Worst:" and the next ";", in order.
C3_ExtractsEveryPair ==
    pc # "extract" =>
        worst_bigrams = Returned(IF Contains(message, WorstMarker)
                                 THEN PairsAfterMarker(message) ELSE <<>>)

RebuiltMessage(msg, table, found) ==
    LET at    == Find(msg, WorstMarker, 1)
        semi  == Find(msg, <<";">>, at + Len(WorstMarker))
        parts == [i \in 1..Len(found) |-> EnhancedPart(table, found[i])]
    IN  SubSeq(msg, 1, at - 1) \o <<"W", "o", "r", "s", "t", ":", " ">> \o Join(parts, <<",", " ">>)
        \o (IF semi = 0 THEN <<>> ELSE SubSeq(msg, semi, Len(msg)))

\* C9: when at least one finding is extracted, add_frequencies returns the
\* text before "Worst:", "Worst: ", the enhanced findings joined by ", ", then
\* ";" and the remainder after the ";" that ends the Worst section; no part of
\* the message appears twice, also when a ";" precedes "Worst:".
C9_RebuiltOnce ==
    (/\ pc \notin {"extract", "add"}
     /\ ~worst_bigrams.raised
     /\ worst_bigrams.value # <<>>)
    => enhanced_message =
          Returned(RebuiltMessage(message, bigram_frequencies, worst_bigrams.value))

-----------------------------------------------------------------------------
(* parse_layouts and export_csv, step by step, on bounded results *)

MsgIdle ==
    /\ message = <<>>
    /\ metric_name = ""
    /\ worst_bigrams = NotRun
    /\ enhanced_message = NotRun
    /\ formatted_message = NotRun
    /\ cleaned_message = NotRun

MetricCost(name, msg, cost) ==
    [core |-> [name |-> name, message |-> msg], weighted_cost |-> cost]

ScissoringWorst ==
    MetricCost("Scissoring", <<"a", " ", "W", "o", "r", "s", "t", ":", " ", "t", "h", " ", "(", "4", ".", "3", "2", "%", ")", ",", " ", "h", "e", " ", "(", "5", "%", ")", ";", " ", " ", "W", "o", "r", "s", "t", " ", "n", "o", "n", "-", "f", "i", "x", "e", "d", ":", " ", "h", "e", " ", "(", "5", "%", ")">>,
               Normalize(Milli(1234)))

ScissoringNone == MetricCost("Scissoring", <<"n", "o", "n", "e">>, Normalize(Milli(1)))

MovementWorst ==
    MetricCost("Movement Pattern", <<"W", "o", "r", "s", "t", ":", " ", "t", "h", " ", "(", "4", ".", "3", "2", "%", ")">>, Normalize(Milli(2500)))

ClusterWorst ==
    MetricCost("Cluster Rolls", <<"W", "o", "r", "s", "t", ":", " ", "h", "e", " ", "(", "5", "%", ")", ",", " ", "t", "h", " ", "(", "4", ".", "3", "2", "%", ")">>, Zero)

HandLoads ==
    MetricCost("Hand Disbalance", <<"H", "a", "n", "d", " ", "l", "o", "a", "d", "s", " ", "%", " ", "(", "n", "o", " ", "t", "h", "u", "m", "b", ")", ":", " ", "4", "8", ".", "2", "5", " ", "-", " ", "5", "1", ".", "7", "5">>, Zero)

MetricCosts == {ScissoringWorst, ScissoringNone, MovementWorst, ClusterWorst, HandLoads}

\* the ways to cut a list of metric costs into consecutive groups
RECURSIVE Groupings(_)
Groupings(costs) ==
    IF costs = <<>> THEN {<<>>}
    ELSE UNION {{<<[metric_costs |-> SubSeq(costs, 1, k)]>> \o rest :
                    rest \in Groupings(SubSeq(costs, k + 1, Len(costs)))} :
                k \in 1..Len(costs)}

\* individual_results with at most n metric costs in all
IndividualResults(n) ==
    UNION {Groupings(costs) : costs \in UNION {[1..k -> MetricCosts] : k \in 0..n}}

Result(total, layout, individual_results) ==
    [total_cost |-> total,
     details |-> [layout |-> layout, individual_results |-> individual_results]]

ScissoringTwice ==
    <<[metric_costs |-> <<ScissoringWorst, HandLoads>>],
      [metric_costs |-> <<ScissoringNone>>]>>

MovementAndCluster == <<[metric_costs |-> <<MovementWorst, ClusterWorst>>]>>

\* results of equal and of different total cost, with and without metrics
Results ==
    { Result(Normalize(Milli(5000)), <<"a", "b">>, <<>>),
      Result(Normalize(Milli(5000)), <<"c", "d">>, ScissoringTwice),
      Result(Normalize(Milli(5000)), <<"a", "b">>, MovementAndCluster),
      Result(Normalize(Milli(5040)), <<"a", "b">>, MovementAndCluster),
      Result(Normalize(Milli(5040)), <<"c", "d">>, <<>>),
      Result(Normalize(Milli(10000)), <<"a", "b">>, ScissoringTwice),
      Result(Normalize(Milli(10000)), <<"c", "d">>, MovementAndCluster) }

TablesForRows == {<<>>, (<<"t", "h">> :> Normalize(Milli(4126)) @@ <<"h", "e">> :> Normalize(Milli(300)))}

InitRows ==
    /\ pc = "sort"
    /\ bigram_frequencies \in TablesForRows
    /\ data \in UNION {[1..n -> Results] : n \in 0..MaxResults}
    /\ sorted_data = <<>>
    /\ metrics_data = <<>>
    /\ records = <<>>
    /\ csv_file = NoFile
    /\ MsgIdle
    /\ NoDiagrams

\* one layout, with every grouping of at most MaxMetricCosts metric costs
InitMetrics ==
    /\ pc = "sort"
    /\ bigram_frequencies \in TablesForRows
    /\ data \in {<<Result(Normalize(Milli(5040)), <<"a", "b">>, ir)>> :
                    ir \in IndividualResults(MaxMetricCosts)}
    /\ sorted_data = <<>>
    /\ metrics_data = <<>>
    /\ records = <<>>
    /\ csv_file = NoFile
    /\ MsgIdle
    /\ NoDiagrams

\* parse_layouts up to its loop over sorted_data
SortData ==
    /\ pc = "sort"
    /\ IF \E i \in 1..Len(data) : "total_cost" \notin DOMAIN data[i]
       THEN /\ pc' = "parse_raised"    \* KeyError
            /\ UNCHANGED sorted_data
       ELSE /\ sorted_data' = SortedByTotalCost(data)
            /\ pc' = IF data = <<>> THEN MainAfter("parse") ELSE "process"
    /\ UNCHANGED <<bigram_frequencies, md_file, msgVars, diagVars, data, metrics_data, records, csv_file>>

\* one pass of the loop, up to the return of process_layout_metrics
ProcessLayoutMetrics ==
    /\ pc = "process"
    /\ LET result == sorted_data[Len(records) + 1]
       IN  IF ~HasFields(result)
           THEN /\ pc' = "parse_raised"    \* KeyError
                /\ UNCHANGED metrics_data
           ELSE LET metrics == process_layout_metrics(result, bigram_frequencies)
                IN  /\ metrics_data' = metrics.value
                    /\ pc' = IF metrics.raised THEN "parse_raised" ELSE "build"
    /\ UNCHANGED <<bigram_frequencies, md_file, msgVars, diagVars, data, sorted_data, records, csv_file>>

\* the rest of the pass: the row is built and appended
BuildLayoutRow ==
    /\ pc = "build"
    /\ LET result == sorted_data[Len(records) + 1]
       IN  records' = Append(records,
               build_layout_row(result.details.layout, result.total_cost, metrics_data))
    /\ pc' = IF Len(records') < Len(sorted_data) THEN "process" ELSE MainAfter("parse")
    /\ UNCHANGED <<bigram_frequencies, md_file, msgVars, diagVars, data, sorted_data, metrics_data, csv_file>>

\* export_csv opens the file and writes the header row
OpenCsv ==
    /\ pc = "export"
    /\ csv_file' = [exists |-> TRUE, content |-> <<COLUMN_HEADERS>>]
    /\ pc' = IF records = <<>> THEN MainAfter("csv") ELSE "csv_rows"
    /\ UNCHANGED <<bigram_frequencies, md_file, msgVars, diagVars, data, sorted_data, metrics_data, records>>

\* export_csv writes the row of the next record; after the last the file is
\* closed
WriteCsvRow ==
    /\ pc = "csv_rows"
    /\ csv_file' = [csv_file EXCEPT
                       !.content = Append(@, CsvRow(records[Len(csv_file.content)]))]
    /\ pc' = IF Len(csv_file'.content) = Len(records) + 1
             THEN MainAfter("csv") ELSE "csv_rows"
    /\ UNCHANGED <<bigram_frequencies, md_file, msgVars, diagVars, data, sorted_data, metrics_data, records>>

NextRows ==
    \/ SortData
    \/ ProcessLayoutMetrics
    \/ BuildLayoutRow
    \/ OpenCsv
    \/ WriteCsvRow

SpecRows == InitRows /\ [][NextRows]_vars

SpecMetrics == InitMetrics /\ [][NextRows]_vars

-----------------------------------------------------------------------------
(* Claims about the rows (SpecRows, SpecMetrics) *)

\* the row parse_layouts builds for one result
RowOf(result) ==
    LET metrics == process_layout_metrics(result, bigram_frequencies)
    IN  IF metrics.raised THEN <<>>
        ELSE build_layout_row(result.details.layout, result.total_cost, metrics.value)

AllRowsBuilt == pc \in {"export", "csv_rows", "txt"}

CsvExported == pc = "txt"

\* C1: the rows are a permutation of the input results in ascending order of
\* total_cost, results of equal total_cost keeping their input order, and the
\* CSV data rows follow the rows.
C1_SortedStable ==
    /\ AllRowsBuilt =>
         \E p \in Permutations(1..Len(data)) :
            /\ Len(records) = Len(data)
            /\ \A i \in 1..Len(data) : records[i] = RowOf(data[p[i]])
            /\ \A i, j \in 1..Len(data) :
                  i < j =>
                     /\ ~FloatLess(data[p[j]].total_cost, data[p[i]].total_cost)
                     /\ data[p[i]].total_cost = data[p[j]].total_cost => p[i] < p[j]
    /\ CsvExported =>
         /\ Len(csv_file.content) = Len(records) + 1
         /\ \A i \in 1..Len(records) :
               /\ csv_file.content[i + 1][1] = DictGet(records[i], <<"L", "a", "y", "o", "u", "t">>).str
               /\ csv_file.content[i + 1][2] = Repr(DictGet(records[i], <<"T", "o", "t", "a", "l", " ", "C", "o", "s", "t">>).float)

\* totals 10.0 then 5.04 in the input: the first data row of the CSV is the
\* second result
C1_Witness ==
    /\ CsvExported
    /\ Len(data) = 2
    /\ FloatLess(data[2].total_cost, data[1].total_cost)
    /\ data[1].details.layout # data[2].details.layout
    /\ csv_file.content[2][1] = data[2].details.layout

\* the metric names a result reports
ReportedNames(result) ==
    LET groups == result.details.individual_results
    IN  UNION {{groups[g].metric_costs[e].core.name :
                   e \in 1..Len(groups[g].metric_costs)} : g \in 1..Len(groups)}

\* C2: every row has exactly the keys of COLUMN_HEADERS, in that order, the
\* same as the CSV header row, whatever metrics the layout reported; a column
\* whose source metric is absent holds the empty string.
C2_FixedColumns ==
    /\ \A i \in 1..Len(records) :
          /\ DictKeys(records[i]) = COLUMN_HEADERS
          /\ \A k \in 1..Len(METRICS_ORDER) :
                (/\ METRICS_ORDER[k].display # <<"T", "o", "t", "a", "l", " ", "C", "o", "s", "t">>
                 /\ METRICS_ORDER[k].metric \notin ReportedNames(sorted_data[i]))
                => records[i][k + 1].value = StrCell(<<>>)
    /\ CsvExported =>
          /\ csv_file.content[1] = COLUMN_HEADERS
          /\ \A i \in 1..Len(records) :
                /\ Len(csv_file.content[i + 1]) = Len(COLUMN_HEADERS)
                /\ \A k \in 1..Len(METRICS_ORDER) :
                      (/\ METRICS_ORDER[k].display # <<"T", "o", "t", "a", "l", " ", "C", "o", "s", "t">>
                       /\ METRICS_ORDER[k].metric \notin ReportedNames(sorted_data[i]))
                      => csv_file.content[i + 1][k + 1] = <<>>

\* two rows were exported, of a layout that reported no metric and of one
\* that reported some
C2_Witness ==
    /\ CsvExported
    /\ Len(records) = 2
    /\ ReportedNames(sorted_data[1]) = {}
    /\ ReportedNames(sorted_data[2]) # {}
    /\ DictKeys(records[1]) = DictKeys(records[2])

\* the positions <<group, index>> at which a result reports the metric name
Visits(result, name) ==
    LET groups == result.details.individual_results
    IN  UNION {{<<g, e>> : e \in {x \in 1..Len(groups[g].metric_costs) :
                                     groups[g].metric_costs[x].core.name = name}} :
               g \in 1..Len(groups)}

\* the last of them in visiting order
LastVisit(result, name) ==
    CHOOSE p \in Visits(result, name) :
        \A q \in Visits(result, name) :
            q[1] < p[1] \/ (q[1] = p[1] /\ q[2] <= p[2])

\* C8: the mapping of process_layout_metrics holds, for each metric name
\* reported, the cost and the message of the last visited entry of that name;
\* the message is enriched and reformatted only for "Scissoring" and
\* "Cluster Rolls" and only with a non-empty frequency table, and is stored
\* unchanged otherwise.
C8_LastEntryWins ==
    pc = "build" =>
        LET result == sorted_data[Len(records) + 1]
            groups == result.details.individual_results
        IN  /\ {metrics_data[i].key : i \in 1..Len(metrics_data)} = ReportedNames(result)
            /\ \A name \in ReportedNames(result) :
                  LET at   == LastVisit(result, name)
                      last == groups[at[1]].metric_costs[at[2]]
                      kept == DictGet(metrics_data, name)
                  IN  /\ kept.cost = last.weighted_cost
                      /\ kept.message =
                            IF name \in {"Scissoring", "Cluster Rolls"}
                               /\ bigram_frequencies # <<>>
                            THEN format_frequencies(
                                     add_frequencies(last.core.message,
                                                     bigram_frequencies).value)
                            ELSE last.core.message

\* "Scissoring" was reported by two groups with different messages and costs,
\* next to a metric that is not enriched, with a frequency table
C8_Witness ==
    /\ pc = "build"
    /\ bigram_frequencies # <<>>
    /\ LET groups == sorted_data[1].details.individual_results
       IN  /\ Len(groups) = 2
           /\ groups[1].metric_costs = <<ScissoringWorst, MovementWorst>>
           /\ groups[2].metric_costs = <<ScissoringNone>>
    /\ DictGet(metrics_data, "Scissoring").message = <<"n", "o", "n", "e">>
    /\ DictGet(metrics_data, "Movement Pattern").message = MovementWorst.core.message

-----------------------------------------------------------------------------
(* parse_diagrams, section by section, on bounded text logs *)

SvgDir == <<"o", "u", "t", "/", "s", "v", "g", "s">>

DiagramLine == <<" ", "a", " ", " ", "b">>

LayoutStringLine == <<"L", "a", "y", "o", "u", "t", " ", "s", "t", "r", "i", "n", "g", " ", "(", "l", "a", "y", "e", "r", " ", "1", ")", ":">>

\* the shapes of a section of the log, as lists of lines
FullSection(id) == <<SectionMarker, DiagramLine, <<>>, LayoutStringLine, id, <<"C", "o", "s", "t", ":", " ", "1">>>>

SectionShapes ==
    { FullSection(<<"a", "b">>),
      FullSection(<<" ", "c", "d", " ">>),
      \* no layout string line
      <<SectionMarker, DiagramLine>>,
      \* the layout string of the first shape again, under another diagram
      <<SectionMarker, <<"b", " ", "a">>, LayoutStringLine, <<"a", "b">>>>,
      \* an empty line follows the layout string line
      <<SectionMarker, DiagramLine, LayoutStringLine, <<>>, <<"a", "b">>>>,
      \* no diagram line before the layout string line
      <<SectionMarker, <<" ", " ">>, LayoutStringLine, <<"a", "b">>, DiagramLine>> }

\* what precedes the first section
Preambles == {<<>>, <<<<"O", "p", "t", "i", "m", "i", "z", "i", "n", "g">>>>}

LogsOf(shapes, n) ==
    {Join(pre \o Concat(secs), <<"\n">>) :
        pre \in Preambles, secs \in UNION {[1..k -> shapes] : k \in 0..n}}

TxtFiles ==
    {NoFile}
    \cup {[exists |-> TRUE, content |-> c] : c \in LogsOf(SectionShapes, MaxSections)}

DiagramsIdle ==
    /\ layout_sections = <<>>
    /\ next_section = 0
    /\ generated_layouts = <<>>
    /\ svg_files = <<>>

InitDiagrams ==
    /\ pc = "diagrams"
    /\ txt_file \in TxtFiles
    /\ DiagramsIdle
    /\ md_file = NoFile
    /\ bigram_frequencies = <<>>
    /\ MsgIdle
    /\ RowsIdle

\* parse_diagrams up to its loop over the sections
StartDiagrams ==
    /\ pc = "diagrams"
    /\ IF ~txt_file.exists
       THEN /\ pc' = "diagrams_raised"    \* FileNotFoundError
            /\ UNCHANGED <<layout_sections, next_section>>
       ELSE /\ layout_sections' = SplitSections(Lines(txt_file.content), 1, <<>>, <<>>)
            /\ next_section' = 1
            /\ pc' = "section"
    /\ UNCHANGED <<bigram_frequencies, md_file, msgVars, rowVars, txt_file,
                   generated_layouts, svg_files>>

\* one pass of the loop: the section is skipped, or rendered into its file
RenderSection ==
    /\ pc = "section"
    /\ next_section <= Len(layout_sections)
    /\ LET section == layout_sections[next_section]
       IN  IF SkipsSection(section)
           THEN UNCHANGED <<generated_layouts, svg_files>>
           ELSE LET layout_string == LayoutStringOf(section)
                    svg_path == SvgPath(SvgDir, layout_string)
                IN  /\ svg_files' = (svg_path :> export_svg(parse_layout_diagram(section)))
                                    @@ svg_files
                    /\ generated_layouts' =
                           Append(generated_layouts, <<layout_string, svg_path>>)
    /\ next_section' = next_section + 1
    /\ UNCHANGED <<pc, bigram_frequencies, md_file, msgVars, rowVars, txt_file, layout_sections>>

\* parse_diagrams returns generated_layouts
ReturnDiagrams ==
    /\ pc = "section"
    /\ next_section > Len(layout_sections)
    /\ pc' = MainAfter("diagrams")
    /\ UNCHANGED <<bigram_frequencies, md_file, msgVars, rowVars, diagVars>>

NextDiagrams ==
    \/ StartDiagrams
    \/ RenderSection
    \/ ReturnDiagrams

SpecDiagrams == InitDiagrams /\ [][NextDiagrams]_vars

-----------------------------------------------------------------------------
(* Claims about parse_diagrams (SpecDiagrams) *)

\* the lines that begin a section: they start with the marker
SectionStarts(lines) == {i \in 1..Len(lines) : StartsWith(lines[i], SectionMarker)}

\* the last line of the section that begins at line i
SectionEnd(lines, starts, i) ==
    LET later == {j \in starts : j > i}
    IN  IF later = {} THEN Len(lines) ELSE Min(later) - 1

\* the "Layout string (layer 1):" lines of that section that a layout
\* identifier line follows
LayoutStringLines(lines, starts, i) ==
    {j \in (i + 1)..(SectionEnd(lines, starts, i) - 1) :
        lines[j] = LayoutStringLine /\ lines[j + 1] # <<>>}

\* the non-blank lines between the marker line and the first line that
\* holds "Layout string"
DiagramLinesOf(lines, starts, i) ==
    LET last  == SectionEnd(lines, starts, i)
        stops == {j \in (i + 1)..last : Contains(lines[j], <<"L", "a", "y", "o", "u", "t", " ", "s", "t", "r", "i", "n", "g">>)}
        stop  == IF stops = {} THEN last + 1 ELSE Min(stops)
    IN  {k \in (i + 1)..(stop - 1) : Strip(lines[k]) # <<>>}

RECURSIVE Ascending(_)
Ascending(S) == IF S = {} THEN <<>> ELSE <<Min(S)>> \o Ascending(S \ {Min(S)})

\* the sections the claim counts, in log order: each as its trimmed layout
\* string and its diagram lines
CompleteSections(lines) ==
    LET starts   == SectionStarts(lines)
        complete == {i \in starts : /\ LayoutStringLines(lines, starts, i) # {}
                                    /\ DiagramLinesOf(lines, starts, i) # {}}
        order    == Ascending(complete)
    IN  [n \in 1..Len(order) |->
            [layout_string |->
                 Strip(lines[Min(LayoutStringLines(lines, starts, order[n])) + 1]),
             diagram |->
                 LET at == Ascending(DiagramLinesOf(lines, starts, order[n]))
                 IN  [k \in 1..Len(at) |-> lines[at[k]]]]]

\* the pairs the claim expects of them
ExpectedPairs(complete) ==
    [n \in 1..Len(complete) |->
        <<complete[n].layout_string,
          SvgDir \o <<"/">> \o complete[n].layout_string \o <<".", "s", "v", "g">>>>]

DiagramsParsed == pc = "markdown"

\* C7 as stated: N complete sections give exactly N SVG files, one per
\* section, each named after the section's trimmed layout string, and N pairs
\* in log order; the other sections give no file and no pair.
C7_OneFilePerSection ==
    DiagramsParsed =>
        LET complete == CompleteSections(Lines(txt_file.content))
            expected == ExpectedPairs(complete)
        IN  /\ generated_layouts = expected
            /\ Cardinality(DOMAIN svg_files) = Len(complete)
            /\ \A n \in 1..Len(expected) : expected[n][2] \in DOMAIN svg_files

\* C7 as amended: N complete sections give N pairs in log order, each naming
\* <trimmed layout string>.svg, and one SVG file per distinct layout string
\* among them: sections with the same layout string write the same file, which
\* holds the diagram of the last of them.
C7_OneFilePerLayoutString ==
    DiagramsParsed =>
        LET complete == CompleteSections(Lines(txt_file.content))
            expected == ExpectedPairs(complete)
        IN  /\ generated_layouts = expected
            /\ DOMAIN svg_files = {expected[n][2] : n \in 1..Len(expected)}
            /\ \A n \in 1..Len(expected) :
                  PathName(generated_layouts[n][2]) = complete[n].layout_string \o <<".", "s", "v", "g">>
            /\ Cardinality(DOMAIN svg_files)
                  = Cardinality({complete[n].layout_string : n \in 1..Len(complete)})
            /\ \A n \in 1..Len(complete) :
                  (\A m \in (n + 1)..Len(complete) :
                      complete[m].layout_string # complete[n].layout_string)
                  => svg_files[expected[n][2]] = export_svg(complete[n].diagram)

\* a log of three sections was parsed: two complete ones with different
\* layout strings, one of which needed trimming, and one without a diagram
C7_Witness ==
    /\ DiagramsParsed
    /\ Cardinality(SectionStarts(Lines(txt_file.content))) = 3
    /\ Len(CompleteSections(Lines(txt_file.content))) = 2
    /\ Len(generated_layouts) = 2
    /\ generated_layouts[1][1] = <<"c", "d">>
    /\ generated_layouts[2][1] = <<"a", "b">>
    /\ Cardinality(DOMAIN svg_files) = 2

-----------------------------------------------------------------------------
(* main, call by call, on bounded results and text logs *)

\* results as the optimizer writes them, and two that lack a field
MainResults ==
    { Result(Normalize(Milli(10000)), <<"a", "b">>,
             <<[metric_costs |-> <<ScissoringNone, HandLoads>>]>>),
      Result(Normalize(Milli(5040)), <<"C", " ", "d">>,
             <<[metric_costs |-> <<MovementWorst, ClusterWorst>>]>>),
      Result(Normalize(Milli(5000)), <<"e", "f">>, <<>>),
      [details |-> [layout |-> <<"a", "b">>, individual_results |-> <<>>]],
      [total_cost |-> Normalize(Milli(7000))] }

\* text logs, as lists of sections
MainLogs ==
    { <<>>,
      <<FullSection(<<"a", "b">>), FullSection(<<" ", "C", " ", "d", " ">>)>>,
      <<FullSection(<<" ", "C", " ", "d", " ">>), FullSection(<<"a", "b">>)>>,
      <<FullSection(<<"a", "b">>), <<SectionMarker, <<"b", " ", "a">>, LayoutStringLine, <<"a", "b">>>>>>,
      <<FullSection(<<"z", "z">>), <<SectionMarker, DiagramLine>>>>,
      <<FullSection(<<"z", "z">>), FullSection(<<"a", "b">>)>> }

MainTxtFiles ==
    {NoFile}
    \cup {[exists |-> TRUE, content |-> Join(Concat(secs), <<"\n">>)] : secs \in MainLogs}

InitMain ==
    /\ pc = "sort"
    /\ txt_file \in MainTxtFiles
    /\ data \in UNION {[1..n -> MainResults] : n \in 0..MaxResults}
    /\ bigram_frequencies \in TablesForRows
    /\ sorted_data = <<>>
    /\ metrics_data = <<>>
    /\ records = <<>>
    /\ csv_file = NoFile
    /\ DiagramsIdle
    /\ md_file = NoFile
    /\ MsgIdle

\* if txt_file.exists()
CheckTxt ==
    /\ pc = "txt"
    /\ pc' = IF txt_file.exists THEN "diagrams" ELSE MainAfter("markdown")
    /\ UNCHANGED <<bigram_frequencies, md_file, msgVars, rowVars, diagVars>>

\* export_markdown writes the report
ExportMarkdown ==
    /\ pc = "markdown"
    /\ md_file' = [exists |-> TRUE,
                   content |-> export_markdown(records, generated_layouts)]
    /\ pc' = MainAfter("markdown")
    /\ UNCHANGED <<bigram_frequencies, msgVars, rowVars, diagVars>>

\* an OSError while export_csv opens or writes the file: what was written stays
CsvFails ==
    /\ pc \in {"export", "csv_rows"}
    /\ pc' = "csv_raised"
    /\ UNCHANGED <<bigram_frequencies, md_file, msgVars, rowVars, diagVars>>

\* an OSError while parse_diagrams reads the log or writes an SVG file
DiagramsFail ==
    /\ pc \in {"diagrams", "section"}
    /\ pc' = "diagrams_raised"
    /\ UNCHANGED <<bigram_frequencies, md_file, msgVars, rowVars, diagVars>>

\* an OSError while export_markdown opens or writes the file: the file is not
\* there, or holds a part of the report
MarkdownFails ==
    /\ pc = "markdown"
    /\ \E written \in {0, 1} :
          md_file' = IF written = 0 THEN NoFile
                     ELSE [exists |-> TRUE,
                           content |-> [toc |-> TocItems(records),
                                        summary |-> <<>>, details |-> <<>>]]
    /\ pc' = "markdown_raised"
    /\ UNCHANGED <<bigram_frequencies, msgVars, rowVars, diagVars>>

NextMain ==
    \/ SortData
    \/ ProcessLayoutMetrics
    \/ BuildLayoutRow
    \/ OpenCsv
    \/ WriteCsvRow
    \/ CheckTxt
    \/ StartDiagrams
    \/ RenderSection
    \/ ReturnDiagrams
    \/ ExportMarkdown
    \/ CsvFails
    \/ DiagramsFail
    \/ MarkdownFails

SpecMain == InitMain /\ [][NextMain]_vars

-----------------------------------------------------------------------------
(* Claims about main and export_markdown (SpecMain) *)

\* the CSV file holds the header row and the row of every result, and is closed
CsvComplete ==
    /\ Len(records) = Len(data)
    /\ csv_file = [exists |-> TRUE,
                   content |-> <<COLUMN_HEADERS>> \o [i \in 1..Len(records) |-> CsvRow(records[i])]]
    /\ pc \notin {"export", "csv_rows", "csv_raised"}

\* the diagram step or the Markdown step has started
ReportStarted ==
    \/ pc \in {"diagrams", "section", "markdown", "diagrams_raised", "markdown_raised"}
    \/ layout_sections # <<>>
    \/ svg_files # <<>>
    \/ md_file.exists

\* C5: main parses all layouts, then writes the CSV to completion, then, only
\* if the text log exists, generates all SVG files, then writes the Markdown
\* report.  The diagram and Markdown steps never start before the CSV is
\* complete, so a failure in either leaves a complete CSV; a failure while
\* parsing leaves no CSV, SVG or Markdown file.
C5_StepsInOrder ==
    /\ csv_file.exists => Len(records) = Len(data)
    /\ ReportStarted => CsvComplete /\ txt_file.exists
    /\ md_file.exists => /\ pc \in {"done", "markdown_raised"}
                         /\ next_section = Len(layout_sections) + 1
    /\ pc \in {"diagrams_raised", "markdown_raised"} => CsvComplete
    /\ pc = "parse_raised" => /\ ~csv_file.exists
                              /\ svg_files = <<>>
                              /\ ~md_file.exists
    /\ pc = "done" => /\ CsvComplete
                      /\ md_file.exists <=> txt_file.exists

\* the Markdown step failed after two layouts were parsed and an SVG file was
\* generated: the CSV on disk holds both rows
C5_Witness ==
    /\ pc = "markdown_raised"
    /\ Len(data) = 2
    /\ svg_files # <<>>
    /\ Len(csv_file.content) = 3

\* the report is written
ReportWritten == pc = "done" /\ md_file.exists

\* the pairs of generated_layouts whose layout string is the layout
PairsOf(layout) ==
    {n \in 1..Len(generated_layouts) : generated_layouts[n][1] = layout}

\* C6: the SVG cell of a record's Summary row is an image reference of width
\* 600 to svgs/<file name of the SVG generated for the layout> if and only if
\* generated_layouts holds a pair with exactly the record's Layout, and is
\* empty otherwise; a record without diagram, or an empty generated_layouts,
\* causes no error, whatever the order of records and generated_layouts.
C6_ImageIffGenerated ==
    /\ pc = "done" /\ txt_file.exists => ReportWritten
    /\ ReportWritten =>
          /\ Len(md_file.content.summary) = Len(records)
          /\ \A i \in 1..Len(records) :
                LET layout == DictGet(records[i], <<"L", "a", "y", "o", "u", "t">>).str
                    cell   == md_file.content.summary[i][1]
                IN  IF PairsOf(layout) # {}
                    THEN \A n \in PairsOf(layout) :
                            /\ generated_layouts[n][2] \in DOMAIN svg_files
                            /\ cell = <<"<", "i", "m", "g", " ", "s", "r", "c", "=", "\"", "s", "v", "g", "s", "/">>
                                      \o PathName(generated_layouts[n][2])
                                      \o <<"\"", " ", "w", "i", "d", "t", "h", "=", "\"", "6", "0", "0", "\"", ">">>
                    ELSE cell = <<>>

\* two records: the first has no diagram, the second has the diagram of the
\* second pair of generated_layouts
C6_Witness ==
    /\ ReportWritten
    /\ Len(records) = 2
    /\ Len(generated_layouts) = 2
    /\ PairsOf(DictGet(records[1], <<"L", "a", "y", "o", "u", "t">>).str) = {}
    /\ PairsOf(DictGet(records[2], <<"L", "a", "y", "o", "u", "t">>).str) = {2}
    /\ md_file.content.summary[1][1] = <<>>
    /\ md_file.content.summary[2][1] # <<>>

\* the value of a column in a row, as the CSV shows it
ShownValue(rec, header) == Str(DictGet(rec, header))

\* C10: in the details of a layout, a column other than Layout and Total Cost
\* without "Worst" in its header is in the "All Metrics" table if and only if
\* its value in the row is not the empty string, and a "Worst" column is in the
\* bulleted list, its label without " Worst", if and only if its value is not
\* the empty string; a cost that rounds to 0.0 is listed.
C10_ListedIffNonEmpty ==
    ReportWritten =>
        \A i \in 1..Len(records) :
            LET section == md_file.content.details[i]
            IN  \A k \in 3..Len(COLUMN_HEADERS) :
                    LET header == COLUMN_HEADERS[k]
                        value  == ShownValue(records[i], header)
                    IN  IF Contains(header, <<"W", "o", "r", "s", "t">>)
                        THEN (\E m \in 1..Len(section.worst_cases) :
                                 section.worst_cases[m]
                                    = <<Replace(header, <<" ", "W", "o", "r", "s", "t">>, <<>>), value>>)
                             <=> value # <<>>
                        ELSE (\E m \in 1..Len(section.metrics_data) :
                                 section.metrics_data[m] = <<header, value>>)
                             <=> value # <<>>

====
